---------------------------- MODULE Spec2Model ----------------------------
(***************************************************************************)
(* Hierarchical state machine of infinite_state_machine.c and              *)
(* infinite_state.c: a fixed-capacity stack of active states, the          *)
(* topology walk over the static parent links and the goto / jump / init   *)
(* operations, with the enter and exit callbacks as separate steps so that *)
(* a callback can re-invoke goto on its own machine.                       *)
(***************************************************************************)
EXTENDS Integers, Sequences, FiniteSets, TLC

(***************************************************************************)
(* Program constants.                                                      *)
(***************************************************************************)

\* infinite_state_machine.h takes INFINITE_STATE_MACHINE_MAX_DEPTH from the
\* build when it is defined before the header (default 7); the model is the
\* build with -DINFINITE_STATE_MACHINE_MAX_DEPTH=3.
INFINITE_STATE_MACHINE_MAX_DEPTH == 3

\* <errno.h>
EINVAL == 22
ENOMEM == 12

\* The null pointer, for states and for machines.
NULL == 0

(***************************************************************************)
(* Bounds of the model.                                                    *)
(***************************************************************************)

\* States outside the main chain (see Tree).
NumBranch == 2

\* The external events (start, stop, cycle) the README's engine is sent
\* after test_engine has set it up.
MaxEvents == 5

\* The calls of goto a caller makes after one init while the history of
\* callbacks is kept.
MaxGotos == 3

\* Calls of goto made from inside callbacks since the machine was last
\* rebuilt by init or jump.
MaxReenter == 1

\* The states whose parent link is arbitrary (cycles included) where
\* infinite_state_topology is called directly.
TopoStates == 3

\* The largest depth budget, and the length of the buffer, of those calls.
MaxBudget == 4

(***************************************************************************)
(* The state objects: a chain 1 <- 2 <- ... <- ChainLen, one state longer  *)
(* than the machine can hold, and branch states hanging off it.            *)
(***************************************************************************)

ChainLen == INFINITE_STATE_MACHINE_MAX_DEPTH + 1

NumStates == ChainLen + NumBranch

States == 1..NumStates

StatePtr == States \cup {NULL}

\* Branch state ChainLen + j: for j = 1, 4, 7, ... a child of chain state
\* 1, 2, 3, ...; for j = 2, 5, ... a root of its own; for j = 3, 6, ... a
\* child of the branch state two before it.
Tree ==
    [s \in States |->
        IF s <= ChainLen THEN s - 1
        ELSE LET j == s - ChainLen
             IN  IF j % 3 = 1 THEN ((j \div 3) % ChainLen) + 1
                 ELSE IF j % 3 = 2 THEN NULL
                 ELSE s - 2]

\* state->enter != NULL, state->exit != NULL: every state has both
\* callbacks but the first extra root, which has neither.
NoHooks == {ChainLen + 2}

HasEnter(state) == state \notin NoHooks

HasExit(state) == state \notin NoHooks

Slots == 0..(INFINITE_STATE_MACHINE_MAX_DEPTH - 1)

\* The machine instances of the program.
Machines == {1}

MachinePtr == Machines \cup {NULL}

VARIABLES
    machine,    \* machine[m] = [states, depth]: struct infinite_state_machine
    super,      \* super[s]: the parent link of state s
    debug,      \* whether the build defines DEBUG
    inited,     \* inited[m]: init or jump has run on m
    frames,     \* frames[m]: the activations of goto on m, innermost last
    log,        \* log[m]: the events of the current operation, in order:
                \* callbacks called, enters that failed, gotos called from
                \* callbacks and their returns
    before,     \* before[m]: the machine when the current operation began
    op,         \* op[m]: the current (or last) top-level operation
    arg,        \* arg[m]: its state argument
    err,        \* err[m]: the last return value of enter() or exit()
    ret,        \* ret[m]: what the last operation returned, <<>> for void
    reenter,    \* reenter[m]: gotos called from callbacks since init or jump
    topology,   \* the last direct call of infinite_state_topology
    gone,       \* infinite::state_machine: its states and the last go(to)
    engine      \* the README's engine: its cycling counters and its events

vars == <<machine, super, debug, topology, gone, engine, inited, frames, log, before, op, arg,
          err, ret, reenter>>

(***************************************************************************)
(* infinite_state.c                                                        *)
(***************************************************************************)

\* Mutant: the state is written before its ancestors, leaf first.
RECURSIVE infinite_state_topology_leaf_first(_, _, _, _)
infinite_state_topology_leaf_first(state, d, buf, base) ==
    IF state = NULL \/ d = 0
    THEN [buf |-> buf, end |-> base]
    ELSE infinite_state_topology_leaf_first(
             super[state], d - 1, [buf EXCEPT ![base] = state], base + 1)

\* Mutant: a budget shorter than the chain keeps the states nearest the
\* root and drops the ones nearest the state.
infinite_state_topology_outermost(state, d, buf, base) ==
    LET w == infinite_state_topology_leaf_first(
                 state, NumStates, [i \in 0..(NumStates - 1) |-> NULL], 0)
        n == IF w.end < d THEN w.end ELSE d
    IN  [buf |-> [i \in DOMAIN buf |->
                    IF i \in base..(base + n - 1)
                    THEN w.buf[w.end - 1 - (i - base)]
                    ELSE buf[i]],
         end |-> base + n]

\* Mutant: the walk stops one state after the budget is used up.
RECURSIVE infinite_state_topology_over_budget(_, _, _, _)
infinite_state_topology_over_budget(state, d, buf, base) ==
    IF state = NULL \/ d < 0
    THEN [buf |-> buf, end |-> base]
    ELSE LET sub == infinite_state_topology_over_budget(
                        super[state], d - 1, buf, base)
         IN  IF debug /\ \E i \in base..(sub.end - 1) : sub.buf[i] = state
             THEN sub
             ELSE [buf |-> [sub.buf EXCEPT ![sub.end] = state],
                   end |-> sub.end + 1]

\* Mutant: the DEBUG search of the states already written is left out.
RECURSIVE infinite_state_topology_no_guard(_, _, _, _)
infinite_state_topology_no_guard(state, d, buf, base) ==
    IF state = NULL \/ d = 0
    THEN [buf |-> buf, end |-> base]
    ELSE LET sub == infinite_state_topology_no_guard(
                        super[state], d - 1, buf, base)
         IN  [buf |-> [sub.buf EXCEPT ![sub.end] = state],
              end |-> sub.end + 1]

\* infinite_state_topology(state, depth, topology): buf is the array the
\* cursor walks, end the index of the returned cursor.
RECURSIVE infinite_state_topology(_, _, _, _)
infinite_state_topology(state, d, buf, base) ==
    IF state = NULL \/ d = 0
    THEN [buf |-> buf, end |-> base]
    ELSE LET sub == infinite_state_topology(super[state], d - 1, buf, base)
         IN  IF debug /\ \E i \in base..(sub.end - 1) : sub.buf[i] = state
             THEN sub
             ELSE [buf |-> [sub.buf EXCEPT ![sub.end] = state],
                   end |-> sub.end + 1]

(***************************************************************************)
(* infinite_state_machine.c: the operations on a machine value.            *)
(***************************************************************************)

\* infinite_state_machine_init
InitMachine ==
    [states |-> [i \in Slots |-> NULL], depth |-> 0]

\* infinite_state_machine_jump
JumpMachine(state) ==
    LET t == infinite_state_topology(state, INFINITE_STATE_MACHINE_MAX_DEPTH,
                                     InitMachine.states, 0)
    IN  [states |-> t.buf, depth |-> t.end]

\* init that resets the depth and leaves the slots as they were.
infinite_state_machine_init_depth_only(m) ==
    [m EXCEPT !.depth = 0]

\* infinite_state_machine_init(machine), machine holding m: depth = 0 and
\* the memset of all the slots leave nothing of m.
infinite_state_machine_init(m) ==
    InitMachine

\* jump that does not call init first: the topology is written over m.
infinite_state_machine_jump_no_init(m, state) ==
    LET t == infinite_state_topology(state, INFINITE_STATE_MACHINE_MAX_DEPTH,
                                     m.states, 0)
    IN  [states |-> t.buf, depth |-> t.end]

\* infinite_state_machine_jump(machine, state), machine holding m: init,
\* then the topology of state written from slot 0 and its end as the depth.
infinite_state_machine_jump(m, state) ==
    LET z == infinite_state_machine_init(m)
        t == infinite_state_topology(state, INFINITE_STATE_MACHINE_MAX_DEPTH,
                                     z.states, 0)
    IN  [states |-> t.buf, depth |-> t.end]

\* infinite_state_machine_top
infinite_state_machine_top(m) ==
    IF m.depth = 0 THEN NULL ELSE m.states[m.depth - 1]

\* Mutant: in compares every slot of the array, whatever the depth.
infinite_state_machine_in_every_slot(p, state) ==
    IF p = NULL \/ state = NULL
    THEN -EINVAL
    ELSE IF \E d \in Slots : machine[p].states[d] = state
         THEN 1
         ELSE 0

\* Mutant: in checks the machine argument only; a NULL state is searched
\* for like any other.
infinite_state_machine_in_machine_only(p, state) ==
    IF p = NULL
    THEN -EINVAL
    ELSE IF \E d \in 0..(machine[p].depth - 1) : machine[p].states[d] = state
         THEN 1
         ELSE 0

\* infinite_state_machine_in, on machine pointer p
infinite_state_machine_in(p, state) ==
    IF p = NULL \/ state = NULL
    THEN -EINVAL
    ELSE IF \E d \in 0..(machine[p].depth - 1) : machine[p].states[d] = state
         THEN 1
         ELSE 0

\* Mutant: push does not test the capacity.
PushFull_never(m) == FALSE

\* Mutant: push finds the stack full at every depth.
PushFull_always(m) == TRUE

\* infinite_state_machine_push: its test of the capacity
PushFull(m) == m.depth = INFINITE_STATE_MACHINE_MAX_DEPTH

\* Mutant: push counts the state and does not store it.
infinite_state_machine_push_no_store(m, state) ==
    IF PushFull(m)
    THEN [m |-> m, rc |-> -ENOMEM]
    ELSE [m |-> [m EXCEPT !.depth = m.depth + 1], rc |-> 0]

\* infinite_state_machine_push: the machine after, and the return value
infinite_state_machine_push(m, state) ==
    IF PushFull(m)
    THEN [m |-> m, rc |-> -ENOMEM]
    ELSE [m |-> [states |-> [m.states EXCEPT ![m.depth] = state],
                 depth |-> m.depth + 1],
          rc |-> 0]

\* Mutant: pop decrements the depth and leaves the vacated slot as it was.
infinite_state_machine_pop_no_clear(m) ==
    IF m.depth = 0
    THEN [m |-> m, pop |-> NULL]
    ELSE [m |-> [m EXCEPT !.depth = m.depth - 1],
          pop |-> m.states[m.depth - 1]]

\* Mutant: pop clears the top slot and returns its state but leaves the
\* depth as it was.
infinite_state_machine_pop_keep_depth(m) ==
    IF m.depth = 0
    THEN [m |-> m, pop |-> NULL]
    ELSE [m |-> [m EXCEPT !.states[m.depth - 1] = NULL],
          pop |-> m.states[m.depth - 1]]

\* infinite_state_machine_pop: the machine after, and the popped state
infinite_state_machine_pop(m) ==
    IF m.depth = 0
    THEN [m |-> m, pop |-> NULL]
    ELSE [m |-> [states |-> [m.states EXCEPT ![m.depth - 1] = NULL],
                 depth |-> m.depth - 1],
          pop |-> m.states[m.depth - 1]]

\* Mutant: the first loop compares the depths and not the states.
CommonDepth_lengths_only(m, jump, d) ==
    IF m.depth < jump.depth THEN m.depth ELSE jump.depth

\* Mutant: no first loop, every active state is exited and entered again.
CommonDepth_no_prefix(m, jump, d) == d

\* goto's first loop: the length of the common prefix of machine and jump
RECURSIVE CommonDepth(_, _, _)
CommonDepth(m, jump, d) ==
    IF d < m.depth /\ d < jump.depth /\ m.states[d] = jump.states[d]
    THEN CommonDepth(m, jump, d + 1)
    ELSE d

\* Mutant: goto has no early return.
GotoSame_never(m, state) == FALSE

\* Mutant: goto also returns early for a NULL state, as its header says.
GotoSame_or_null(m, state) ==
    state = NULL \/ state = infinite_state_machine_top(m)

\* goto's early return
GotoSame(m, state) == state = infinite_state_machine_top(m)

\* Mutant: goto runs its loop of enters without its loop of exits.
GotoFrame_enter_first(m, state) ==
    LET jump == JumpMachine(state)
    IN  [state |-> state, jump |-> jump, depth |-> CommonDepth(m, jump, 0),
         pc |-> "enter", cur |-> NULL]

\* An activation of goto after its first loop: the locals jump and depth,
\* and where it stands: "exit" and "enter" are the second and third loops,
\* "exit_cb" and "enter_cb" are inside the callback of state cur.
GotoFrame(m, state) ==
    LET jump == JumpMachine(state)
    IN  [state |-> state, jump |-> jump, depth |-> CommonDepth(m, jump, 0),
         pc |-> "exit", cur |-> NULL]

\* Mutant: goto with neither the early return nor the first loop: every
\* active state is exited and the whole topology entered again.
GotoCall_exit_all(m, state, fs) ==
    Append(fs, [GotoFrame(m, state) EXCEPT !.depth = 0])

\* Mutant: a goto called from a callback takes the place of the goto that
\* called the callback, which is not resumed.
GotoCall_replace(m, state, fs) ==
    IF GotoSame(m, state) THEN fs
    ELSE IF fs = <<>> THEN <<GotoFrame(m, state)>>
    ELSE [fs EXCEPT ![Len(fs)] = GotoFrame(m, state)]

\* The activations of goto on m after goto(m, state) is called over fs.
GotoCall(m, state, fs) ==
    IF GotoSame(m, state) THEN fs ELSE Append(fs, GotoFrame(m, state))

(***************************************************************************)
(* The program: a caller per machine that calls init, jump and goto, and   *)
(* the steps of a running goto.                                            *)
(***************************************************************************)

AtRest(p) == frames[p] = <<>>

\* Mutant: goto keeps jump and depth in static storage that the gotos of
\* all machines share: a step reads the activation of whichever machine has
\* one.
Top_shared(p) ==
    LET q == CHOOSE q \in DOMAIN frames : frames[q] # <<>>
    IN  frames[q][Len(frames[q])]

Top(p) == frames[p][Len(frames[p])]

SetTop(p, f) == [frames EXCEPT ![p][Len(frames[p])] = f]

\* The buffer a direct caller of infinite_state_topology passes: MaxBudget
\* entries, none of them written yet.
Unwritten == NumStates + 1

Buffer == [i \in 0..(MaxBudget - 1) |-> Unwritten]

\* infinite_state_topology has not been called directly.
NoTopology ==
    [called |-> FALSE, state |-> NULL, depth |-> 0, buf |-> Buffer,
     end |-> 0]

\* infinite::state_machine as constructed: no state, go not yet called.
NoGone ==
    [called |-> FALSE, to |-> NULL, from |-> <<>>, states |-> <<>>,
     exits |-> <<>>, entries |-> <<>>]

\* The README's engine before test_engine runs: the cycling members of
\* igniting and cranking are zero, no event has happened.
NoEngine ==
    [igniting |-> 0, cranking |-> 0, events |-> <<>>]

\* What an uninitialised struct infinite_state_machine may hold.
Garbage ==
    {[states |-> [i \in Slots |-> g], depth |-> d] :
        g \in {NULL, NumStates},
        d \in {-1, 0, INFINITE_STATE_MACHINE_MAX_DEPTH + 1}}

\* The state objects are linked as Tree, the machine is not yet initialised
\* and the build does not define DEBUG (on an acyclic Tree the DEBUG loop of
\* infinite_state_topology never finds the state among its ancestors).
Init ==
    /\ machine \in [Machines -> Garbage]
    /\ super = Tree
    /\ debug = FALSE
    /\ inited = [p \in Machines |-> FALSE]
    /\ frames = [p \in Machines |-> <<>>]
    /\ log = [p \in Machines |-> <<>>]
    /\ before = machine
    /\ op = [p \in Machines |-> "none"]
    /\ arg = [p \in Machines |-> NULL]
    /\ err = [p \in Machines |-> 0]
    /\ ret = [p \in Machines |-> <<>>]
    /\ reenter = [p \in Machines |-> 0]
    /\ topology = NoTopology
    /\ gone = NoGone
    /\ engine = NoEngine

\* A top-level operation begins: what the caller's bookkeeping records.
Begin(p, name, state) ==
    /\ AtRest(p)
    /\ op' = [op EXCEPT ![p] = name]
    /\ arg' = [arg EXCEPT ![p] = state]
    /\ before' = [before EXCEPT ![p] = machine[p]]
    /\ log' = [log EXCEPT ![p] = <<>>]
    /\ ret' = [ret EXCEPT ![p] = <<>>]

\* infinite_state_machine_init(p)
DoInit(p) ==
    /\ Begin(p, "init", NULL)
    /\ machine' = [machine EXCEPT ![p] = infinite_state_machine_init(@)]
    /\ inited' = [inited EXCEPT ![p] = TRUE]
    /\ reenter' = [reenter EXCEPT ![p] = 0]
    /\ UNCHANGED <<super, debug, topology, gone, engine, frames, err>>

\* infinite_state_machine_jump(p, state)
DoJump(p, state) ==
    /\ Begin(p, "jump", state)
    /\ machine' = [machine EXCEPT ![p] = infinite_state_machine_jump(@, state)]
    /\ inited' = [inited EXCEPT ![p] = TRUE]
    /\ reenter' = [reenter EXCEPT ![p] = 0]
    /\ UNCHANGED <<super, debug, topology, gone, engine, frames, err>>

\* infinite_state_machine_goto(p, state), up to its second loop
DoGoto(p, state) ==
    /\ inited[p]
    /\ Begin(p, "goto", state)
    /\ frames' = [frames EXCEPT ![p] = GotoCall(machine[p], state, @)]
    /\ UNCHANGED <<machine, super, debug, topology, gone, engine, inited, err, reenter>>

\* One turn of while (machine->depth > depth) infinite_state_machine_exit(machine),
\* up to the call of the exit callback; or the end of that loop.
ExitStep(p) ==
    /\ ~AtRest(p)
    /\ Top(p).pc = "exit"
    /\ LET f == Top(p)
           r == infinite_state_machine_pop(machine[p])
       IN  IF machine[p].depth > f.depth
           THEN /\ machine' = [machine EXCEPT ![p] = r.m]
                /\ IF r.pop = NULL
                   THEN /\ err' = [err EXCEPT ![p] = -EINVAL]
                        /\ UNCHANGED <<frames, log>>
                   ELSE IF HasExit(r.pop)
                   THEN /\ frames' = SetTop(p, [f EXCEPT !.pc = "exit_cb",
                                                         !.cur = r.pop])
                        /\ log' = [log EXCEPT ![p] = Append(@, <<"exit", r.pop>>)]
                        /\ UNCHANGED err
                   ELSE /\ err' = [err EXCEPT ![p] = 0]
                        /\ UNCHANGED <<frames, log>>
           ELSE /\ frames' = SetTop(p, [f EXCEPT !.pc = "enter"])
                /\ UNCHANGED <<machine, log, err>>
    /\ UNCHANGED <<super, debug, topology, gone, engine, inited, before, op, arg, ret, reenter>>

\* One turn of while (jump.depth > depth)
\* infinite_state_machine_enter(machine, jump.states[depth++]), up to the
\* call of the enter callback; or the end of that loop and goto's return.
EnterStep(p) ==
    /\ ~AtRest(p)
    /\ Top(p).pc = "enter"
    /\ LET f == Top(p)
       IN  IF f.jump.depth > f.depth
           THEN LET state == f.jump.states[f.depth]
                    g == [f EXCEPT !.depth = f.depth + 1]
                    r == infinite_state_machine_push(machine[p], state)
                IN  /\ machine' = [machine EXCEPT ![p] = r.m]
                    /\ IF r.rc < 0
                       THEN /\ err' = [err EXCEPT ![p] = r.rc]
                            /\ frames' = SetTop(p, g)
                            /\ log' = [log EXCEPT ![p] =
                                          Append(@, <<"nomem", state>>)]
                       ELSE IF HasEnter(state)
                       THEN /\ frames' = SetTop(p, [g EXCEPT !.pc = "enter_cb",
                                                             !.cur = state])
                            /\ log' = [log EXCEPT ![p] =
                                          Append(@, <<"enter", state>>)]
                            /\ UNCHANGED err
                       ELSE /\ err' = [err EXCEPT ![p] = 0]
                            /\ frames' = SetTop(p, g)
                            /\ UNCHANGED log
           ELSE /\ frames' = [frames EXCEPT ![p] = SubSeq(@, 1, Len(@) - 1)]
                /\ log' = [log EXCEPT ![p] =
                              IF Len(frames[p]) > 1
                              THEN Append(@, <<"return", f.state>>)
                              ELSE @]
                /\ UNCHANGED <<machine, err>>
    /\ UNCHANGED <<super, debug, topology, gone, engine, inited, before, op, arg, ret, reenter>>

InCallback(p) ==
    /\ ~AtRest(p)
    /\ Top(p).pc \in {"exit_cb", "enter_cb"}

\* The callback returns, and exit() or enter() returns 0 after it.
CallbackReturn(p) ==
    /\ InCallback(p)
    /\ frames' = SetTop(p, [Top(p) EXCEPT
                               !.pc = IF @ = "exit_cb" THEN "exit" ELSE "enter",
                               !.cur = NULL])
    /\ err' = [err EXCEPT ![p] = 0]
    /\ UNCHANGED <<machine, super, debug, topology, gone, engine, inited, log, before, op, arg, ret,
                   reenter>>

\* The callback calls infinite_state_machine_goto(machine, state).
CallbackGoto(p, state) ==
    /\ InCallback(p)
    /\ reenter[p] < MaxReenter
    /\ reenter' = [reenter EXCEPT ![p] = @ + 1]
    /\ frames' = [frames EXCEPT ![p] = GotoCall(machine[p], state, @)]
    /\ log' = [log EXCEPT ![p] =
                  IF GotoSame(machine[p], state)
                  THEN @ \o <<<<"goto", state>>, <<"return", state>>>>
                  ELSE Append(@, <<"goto", state>>)]
    /\ UNCHANGED <<machine, super, debug, topology, gone, engine, inited, before, op, arg, err, ret>>

\* infinite_state_machine_in(q, state), q the machine p or no machine. The
\* loop reads slots below the depth only, so the call is defined whenever
\* the depth is not beyond the array.
DoIn(p, q, state) ==
    /\ q \in {NULL, p}
    /\ machine[p].depth <= INFINITE_STATE_MACHINE_MAX_DEPTH
    /\ AtRest(p)
    /\ op' = [op EXCEPT ![p] = IF q = NULL THEN "in_absent" ELSE "in"]
    /\ arg' = [arg EXCEPT ![p] = state]
    /\ before' = [before EXCEPT ![p] = machine[p]]
    /\ log' = [log EXCEPT ![p] = <<>>]
    /\ ret' = [ret EXCEPT ![p] = <<infinite_state_machine_in(q, state)>>]
    /\ UNCHANGED <<machine, super, debug, topology, gone, engine, inited, frames, err,
                   reenter>>

\* infinite_state_machine_top(p)
DoTop(p) ==
    /\ inited[p]
    /\ AtRest(p)
    /\ op' = [op EXCEPT ![p] = "top"]
    /\ arg' = [arg EXCEPT ![p] = NULL]
    /\ before' = [before EXCEPT ![p] = machine[p]]
    /\ log' = [log EXCEPT ![p] = <<>>]
    /\ ret' = [ret EXCEPT ![p] = <<infinite_state_machine_top(machine[p])>>]
    /\ UNCHANGED <<machine, super, debug, topology, gone, engine, inited, frames, err,
                   reenter>>

Call(p) ==
    \/ DoInit(p)
    \/ \E state \in StatePtr : DoJump(p, state)
    \/ \E state \in StatePtr : DoGoto(p, state)
    \/ \E q \in MachinePtr, state \in StatePtr : DoIn(p, q, state)
    \/ DoTop(p)

Step(p) ==
    \/ ExitStep(p)
    \/ EnterStep(p)
    \/ CallbackReturn(p)

\* Callbacks that only return.
Next == \E p \in Machines : Call(p) \/ Step(p)

Spec == Init /\ [][Next]_vars

\* Callbacks that may call goto on their own machine.
NextR ==
    \E p \in Machines :
        \/ Call(p)
        \/ Step(p)
        \/ \E state \in StatePtr : CallbackGoto(p, state)

SpecR == Init /\ [][NextR]_vars

\* The parent links infinite_state_topology is called on directly: any
\* link, cyclic ones included, among the first TopoStates states, the
\* links of Tree for the others.
Links ==
    {[s \in States |-> IF s <= TopoStates THEN f[s] ELSE Tree[s]] :
        f \in [1..TopoStates -> {NULL} \cup (1..TopoStates)]}

\* Direct calls: any parent links, with or without DEBUG, no machine in use.
InitT ==
    /\ machine = [p \in Machines |-> InitMachine]
    /\ super \in Links
    /\ debug \in BOOLEAN
    /\ inited = [p \in Machines |-> FALSE]
    /\ frames = [p \in Machines |-> <<>>]
    /\ log = [p \in Machines |-> <<>>]
    /\ before = machine
    /\ op = [p \in Machines |-> "none"]
    /\ arg = [p \in Machines |-> NULL]
    /\ err = [p \in Machines |-> 0]
    /\ ret = [p \in Machines |-> <<>>]
    /\ reenter = [p \in Machines |-> 0]
    /\ topology = NoTopology
    /\ gone = NoGone
    /\ engine = NoEngine

\* end = infinite_state_topology(state, depth, buf), buf of MaxBudget entries
DoTopology(state, d) ==
    /\ LET t == infinite_state_topology(state, d, Buffer, 0)
       IN  topology' = [called |-> TRUE, state |-> state, depth |-> d,
                        buf |-> t.buf, end |-> t.end]
    /\ UNCHANGED <<machine, super, debug, gone, engine, inited, frames, log,
                   before, op, arg, err, ret, reenter>>

NextT == \E state \in StatePtr, d \in 0..MaxBudget : DoTopology(state, d)

SpecT == InitT /\ [][NextT]_vars

\* infinite_state_machine_goto(p, state) called by a caller that keeps
\* the history since the last init: the call is added to the log, which
\* is not cleared.
GotoLogged(p, state) ==
    /\ inited[p]
    /\ AtRest(p)
    /\ Len(SelectSeq(log[p], LAMBDA e : e[1] = "call")) < MaxGotos
    /\ op' = [op EXCEPT ![p] = "goto"]
    /\ arg' = [arg EXCEPT ![p] = state]
    /\ before' = [before EXCEPT ![p] = machine[p]]
    /\ ret' = [ret EXCEPT ![p] = <<>>]
    /\ log' = [log EXCEPT ![p] = Append(@, <<"call", state>>)]
    /\ frames' = [frames EXCEPT ![p] = GotoCall(machine[p], state, @)]
    /\ UNCHANGED <<machine, super, debug, topology, gone, engine, inited, err,
                   reenter>>

\* init and then goto only, callbacks that only return.
NextB ==
    \E p \in Machines :
        \/ DoInit(p)
        \/ \E state \in StatePtr : GotoLogged(p, state)
        \/ Step(p)

SpecB == Init /\ [][NextB]_vars

\* Two machine instances over the same state objects.
Instances == {1, 2}

\* Both machines in zeroed static storage, the states linked as Tree.
InitM ==
    /\ machine = [p \in Instances |-> InitMachine]
    /\ super = Tree
    /\ debug = FALSE
    /\ inited = [p \in Instances |-> FALSE]
    /\ frames = [p \in Instances |-> <<>>]
    /\ log = [p \in Instances |-> <<>>]
    /\ before = machine
    /\ op = [p \in Instances |-> "none"]
    /\ arg = [p \in Instances |-> NULL]
    /\ err = [p \in Instances |-> 0]
    /\ ret = [p \in Instances |-> <<>>]
    /\ reenter = [p \in Instances |-> 0]
    /\ topology = NoTopology
    /\ gone = NoGone
    /\ engine = NoEngine

\* The states the two machines are sent to: the chain, the first branch
\* and the extra root, or no state.
SharedPtr == {NULL} \cup (1..(ChainLen + 2))

\* The steps of the operations on the two machines in any interleaving:
\* a machine's next step may follow any step of the other's.
NextM ==
    \E p \in Instances :
        \/ DoInit(p)
        \/ \E state \in SharedPtr : DoJump(p, state)
        \/ \E state \in SharedPtr : DoGoto(p, state)
        \/ Step(p)

SpecM == InitM /\ [][NextM]_vars

\* One machine in zeroed static storage, the states linked as Tree.
InitF ==
    /\ machine = [p \in Machines |-> InitMachine]
    /\ super = Tree
    /\ debug = FALSE
    /\ inited = [p \in Machines |-> FALSE]
    /\ frames = [p \in Machines |-> <<>>]
    /\ log = [p \in Machines |-> <<>>]
    /\ before = machine
    /\ op = [p \in Machines |-> "none"]
    /\ arg = [p \in Machines |-> NULL]
    /\ err = [p \in Machines |-> 0]
    /\ ret = [p \in Machines |-> <<>>]
    /\ reenter = [p \in Machines |-> 0]
    /\ topology = NoTopology
    /\ gone = NoGone
    /\ engine = NoEngine

\* Every operation on the machine, callbacks that may call goto included.
NextF ==
    \E p \in Machines :
        \/ DoInit(p)
        \/ \E state \in SharedPtr : DoJump(p, state)
        \/ \E state \in SharedPtr : DoGoto(p, state)
        \/ \E q \in MachinePtr, state \in SharedPtr : DoIn(p, q, state)
        \/ DoTop(p)
        \/ Step(p)
        \/ \E state \in SharedPtr : CallbackGoto(p, state)

\* The program is single-threaded and synchronous: a goto that has been
\* called goes on with its loops, and a callback that has been called
\* comes to its return unless it calls goto once more (which it does at
\* most MaxReenter times).
SpecF ==
    /\ InitF
    /\ [][NextF]_vars
    /\ \A p \in Machines : WF_vars(Step(p))

(***************************************************************************)
(* README.md: the engine example. Its five states are state objects 1..5.  *)
(* The README gives enter callbacks to starting, igniting and cranking     *)
(* only; here the other callbacks exist and do nothing but return.         *)
(***************************************************************************)

stopped == 1

starting == 2

igniting == 3

cranking == 4

running == 5

\* .state.super of the engine's states: igniting and cranking are inside
\* starting, the others are roots.
EngineSuper ==
    [s \in States |-> IF s \in {igniting, cranking} THEN starting ELSE NULL]

\* static struct infinite_state_machine engine, in blank static storage.
InitE ==
    /\ machine = [p \in Machines |-> InitMachine]
    /\ super = EngineSuper
    /\ debug = FALSE
    /\ inited = [p \in Machines |-> FALSE]
    /\ frames = [p \in Machines |-> <<>>]
    /\ log = [p \in Machines |-> <<>>]
    /\ before = machine
    /\ op = [p \in Machines |-> "none"]
    /\ arg = [p \in Machines |-> NULL]
    /\ err = [p \in Machines |-> 0]
    /\ ret = [p \in Machines |-> <<>>]
    /\ reenter = [p \in Machines |-> 0]
    /\ topology = NoTopology
    /\ gone = NoGone
    /\ engine = NoEngine

\* test_engine: infinite_state_machine_init(&engine)
test_engine_init(p) ==
    /\ engine.events = <<>>
    /\ Begin(p, "init", NULL)
    /\ machine' = [machine EXCEPT ![p] = infinite_state_machine_init(@)]
    /\ inited' = [inited EXCEPT ![p] = TRUE]
    /\ engine' = [engine EXCEPT !.events = <<"init">>]
    /\ UNCHANGED <<super, debug, topology, gone, frames, err, reenter>>

\* An event function runs at rest: e is the engine after it, and if go it
\* calls go(to), which is infinite_state_machine_goto(&engine, to).
Event(p, name, to, go, e) ==
    /\ inited[p]
    /\ IF go
       THEN /\ Begin(p, "goto", to)
            /\ frames' = [frames EXCEPT ![p] = GotoCall(machine[p], to, @)]
       ELSE /\ Begin(p, name, NULL)
            /\ UNCHANGED frames
    /\ engine' = [e EXCEPT !.events = Append(@, name)]
    /\ UNCHANGED <<machine, super, debug, topology, gone, inited, err,
                   reenter>>

\* test_engine: go(&stopped), the initial transition
test_engine_go(p) ==
    /\ engine.events = <<"init">>
    /\ Event(p, "go", stopped, TRUE, engine)

\* test_engine is past its set-up and may send one more event.
Running(p) ==
    /\ Len(engine.events) >= 2
    /\ Len(engine.events) < MaxEvents + 2

\* start(): if (in(&stopped)) go(&starting)
start(p) ==
    /\ Running(p)
    /\ Event(p, "start", starting,
             infinite_state_machine_in(p, stopped) = 1, engine)

\* stop(): go(&stopped)
stop(p) ==
    /\ Running(p)
    /\ Event(p, "stop", stopped, TRUE, engine)

\* cycle(): the cycle function of the top state: igniting_cycle,
\* cranking_cycle or engine_cycle
cycle(p) ==
    /\ Running(p)
    /\ LET top == infinite_state_machine_top(machine[p])
       IN  IF top = igniting
           THEN Event(p, "cycle", cranking, engine.igniting - 1 = 0,
                      [engine EXCEPT !.igniting = @ - 1])
           ELSE IF top = cranking
           THEN Event(p, "cycle", running, engine.cranking - 1 = 0,
                      [engine EXCEPT !.cranking = @ - 1])
           ELSE Event(p, "cycle", NULL, FALSE, engine)

\* A callback of the engine returns, e the engine after it.
EngineReturn(p, e) ==
    /\ frames' = SetTop(p, [Top(p) EXCEPT
                               !.pc = IF @ = "exit_cb" THEN "exit" ELSE "enter",
                               !.cur = NULL])
    /\ err' = [err EXCEPT ![p] = 0]
    /\ engine' = e
    /\ UNCHANGED <<machine, super, debug, topology, gone, inited, log, before,
                   op, arg, ret, reenter>>

\* starting_enter: go(&igniting.engine)
starting_enter(p) ==
    /\ InCallback(p)
    /\ Top(p).pc = "enter_cb"
    /\ Top(p).cur = starting
    /\ log[p][Len(log[p])] = <<"enter", starting>>
    /\ frames' = [frames EXCEPT ![p] = GotoCall(machine[p], igniting, @)]
    /\ log' = [log EXCEPT ![p] =
                  IF GotoSame(machine[p], igniting)
                  THEN @ \o <<<<"goto", igniting>>, <<"return", igniting>>>>
                  ELSE Append(@, <<"goto", igniting>>)]
    /\ UNCHANGED <<machine, super, debug, topology, gone, engine, inited,
                   before, op, arg, err, ret, reenter>>

\* starting_enter returns, once its go has returned.
starting_enter_return(p) ==
    /\ InCallback(p)
    /\ Top(p).pc = "enter_cb"
    /\ Top(p).cur = starting
    /\ log[p][Len(log[p])] = <<"return", igniting>>
    /\ EngineReturn(p, engine)

\* igniting_enter: igniting.cycling = 1
igniting_enter(p) ==
    /\ InCallback(p)
    /\ Top(p).pc = "enter_cb"
    /\ Top(p).cur = igniting
    /\ EngineReturn(p, [engine EXCEPT !.igniting = 1])

\* cranking_enter: cranking.cycling = 2
cranking_enter(p) ==
    /\ InCallback(p)
    /\ Top(p).pc = "enter_cb"
    /\ Top(p).cur = cranking
    /\ EngineReturn(p, [engine EXCEPT !.cranking = 2])

\* The callbacks the README leaves NULL: every exit, and the enter of
\* stopped and running.
no_callback(p) ==
    /\ InCallback(p)
    /\ \/ Top(p).pc = "exit_cb"
       \/ Top(p).cur \in {stopped, running}
    /\ EngineReturn(p, engine)

NextE ==
    \E p \in Machines :
        \/ test_engine_init(p)
        \/ test_engine_go(p)
        \/ start(p)
        \/ stop(p)
        \/ cycle(p)
        \/ ExitStep(p)
        \/ EnterStep(p)
        \/ starting_enter(p)
        \/ starting_enter_return(p)
        \/ igniting_enter(p)
        \/ cranking_enter(p)
        \/ no_callback(p)

SpecE == InitE /\ [][NextE]_vars

(***************************************************************************)
(* infinite_state_machine.hpp: infinite::state_machine, the C++ variant.   *)
(* Its deque of active states is a sequence, front first; nullptr is NULL. *)
(***************************************************************************)

\* go, first loop: exits.push_front(states.back()); states.pop_back()
\* until states is empty.
RECURSIVE go_exits(_, _)
go_exits(states, exits) ==
    IF states = <<>>
    THEN exits
    ELSE go_exits(SubSeq(states, 1, Len(states) - 1),
                  <<states[Len(states)]>> \o exits)

\* go, the for loop: entries.push_front(to) and to = to->super, until to
\* is nullptr or already among the entries.
RECURSIVE go_entries(_, _)
go_entries(to, entries) ==
    IF to = NULL \/ (\E i \in 1..Len(entries) : entries[i] = to)
    THEN entries
    ELSE go_entries(super[to], <<to>> \o entries)

\* go, the matching loop: while both fronts are equal, move the front of
\* exits to the back of states and pop the front of entries.
RECURSIVE go_match(_, _, _)
go_match(states, exits, entries) ==
    IF exits # <<>> /\ entries # <<>> /\ exits[1] = entries[1]
    THEN go_match(Append(states, exits[1]), Tail(exits), Tail(entries))
    ELSE [states |-> states, exits |-> exits, entries |-> entries]

\* std::reverse(q.begin(), q.end())
std_reverse(q) == [i \in 1..Len(q) |-> q[Len(q) + 1 - i]]

\* go without the final std::reverse of exits.
state_machine_go_no_reverse(states, to) ==
    LET exits == go_exits(states, <<>>)
    IN  IF to # NULL
        THEN LET m == go_match(<<>>, exits, go_entries(to, <<>>))
             IN  [states |-> m.states \o m.entries,
                  exits |-> m.exits,
                  entries |-> m.entries]
        ELSE [states |-> <<>>, exits |-> exits, entries |-> <<>>]

\* struct gone go(state<Topology> *to), on the deque states: the deque
\* after the call and the returned exits and entries.
state_machine_go(states, to) ==
    LET exits == go_exits(states, <<>>)
    IN  IF to # NULL
        THEN LET m == go_match(<<>>, exits, go_entries(to, <<>>))
             IN  [states |-> m.states \o m.entries,
                  exits |-> std_reverse(m.exits),
                  entries |-> m.entries]
        ELSE [states |-> <<>>, exits |-> std_reverse(exits), entries |-> <<>>]

\* at(): states.empty() ? nullptr : states.back()
state_machine_at(states) ==
    IF states = <<>> THEN NULL ELSE states[Len(states)]

\* in(state): std::find(states.cbegin(), states.cend(), state) != cend
state_machine_in(states, state) ==
    \E i \in 1..Len(states) : states[i] = state

\* A default-constructed state_machine over any parent links, cyclic ones
\* included.
InitG ==
    /\ machine = [p \in Machines |-> InitMachine]
    /\ super \in Links
    /\ debug = FALSE
    /\ inited = [p \in Machines |-> FALSE]
    /\ frames = [p \in Machines |-> <<>>]
    /\ log = [p \in Machines |-> <<>>]
    /\ before = machine
    /\ op = [p \in Machines |-> "none"]
    /\ arg = [p \in Machines |-> NULL]
    /\ err = [p \in Machines |-> 0]
    /\ ret = [p \in Machines |-> <<>>]
    /\ reenter = [p \in Machines |-> 0]
    /\ topology = NoTopology
    /\ gone = NoGone
    /\ engine = NoEngine

\* A call ism.go(to); gone.from is the deque it was called on.
DoGo(to) ==
    /\ LET r == state_machine_go(gone.states, to)
       IN  gone' = [called |-> TRUE, to |-> to, from |-> gone.states,
                    states |-> r.states, exits |-> r.exits,
                    entries |-> r.entries]
    /\ UNCHANGED <<machine, super, debug, topology, engine, inited, frames,
                   log, before, op, arg, err, ret, reenter>>

NextG == \E to \in StatePtr : DoGo(to)

SpecG == InitG /\ [][NextG]_vars

\* infinite_state_machine_goto run from call to return with nothing in
\* between, its callbacks only returning: the second loop from machine m
\* down to depth k, l the events so far.
RECURSIVE ExitAll(_, _, _)
ExitAll(m, k, l) ==
    IF m.depth > k
    THEN LET r == infinite_state_machine_pop(m)
         IN  ExitAll(r.m, k, IF r.pop # NULL /\ HasExit(r.pop)
                             THEN Append(l, <<"exit", r.pop>>)
                             ELSE l)
    ELSE [m |-> m, log |-> l]

\* The third loop, from depth d of the scratch machine jump.
RECURSIVE EnterAll(_, _, _, _)
EnterAll(m, jump, d, l) ==
    IF jump.depth > d
    THEN LET r == infinite_state_machine_push(m, jump.states[d])
         IN  EnterAll(r.m, jump, d + 1,
                      IF r.rc < 0 THEN Append(l, <<"nomem", jump.states[d]>>)
                      ELSE IF HasEnter(jump.states[d])
                      THEN Append(l, <<"enter", jump.states[d]>>)
                      ELSE l)
    ELSE [m |-> m, log |-> l]

\* The whole of goto(m, state): the machine and the events it leaves.
GotoAlone(m, state) ==
    IF GotoSame(m, state)
    THEN [m |-> m, log |-> <<>>]
    ELSE LET jump == JumpMachine(state)
             k == CommonDepth(m, jump, 0)
             x == ExitAll(m, k, <<>>)
         IN  EnterAll(x.m, jump, k, x.log)

(***************************************************************************)
(* Vocabulary of the properties.                                           *)
(***************************************************************************)

Range(q) == {q[i] : i \in 1..Len(q)}

Reverse(q) == [i \in 1..Len(q) |-> q[Len(q) + 1 - i]]

\* The active path of a machine value, outermost first.
StackOf(m) == [i \in 1..m.depth |-> m.states[i - 1]]

\* The forward topology of a state by its definition: its ancestors from
\* the root down to the state itself.
RECURSIVE Ancestry(_)
Ancestry(state) ==
    IF state = NULL THEN <<>> ELSE Append(Ancestry(super[state]), state)

\* The topology vector goto computes for a target (budget MAX_DEPTH).
TargetTopology(state) == StackOf(JumpMachine(state))

\* The length of the longest common prefix of two sequences.
PrefixLen(a, b) ==
    CHOOSE k \in 0..Len(a) :
        /\ k <= Len(b)
        /\ \A i \in 1..k : a[i] = b[i]
        /\ (k < Len(a) /\ k < Len(b)) => a[k + 1] # b[k + 1]

\* The states of the events of one kind in the log of p, in order.
Events(p, kind) ==
    LET sel == SelectSeq(log[p], LAMBDA e : e[1] = kind)
    IN  [i \in 1..Len(sel) |-> sel[i][2]]

\* Every slot below depth - 1 holds the parent of the slot above it.
ParentLinked(m) ==
    \A i \in 0..(m.depth - 2) : super[m.states[i + 1]] = m.states[i]

\* A top-level operation of the given name has returned on p.
Returned(p, name) == inited[p] /\ AtRest(p) /\ op[p] = name

\* No callback of the current operation called goto.
NoReentry(p) == Events(p, "goto") = <<>>

(***************************************************************************)
(* The properties.                                                         *)
(***************************************************************************)

\* C1: after goto(m, s) has returned, for a target s whose ancestor chain
\* has at most MAX_DEPTH states (callbacks only return), the stack is the
\* forward topology of s: top(m) = s, in(m, a) = 1 for s and each of its
\* ancestors, in(m, x) = 0 for every other state.
C1_TopologyFidelity ==
    \A p \in Machines :
        (/\ Returned(p, "goto")
         /\ Len(Ancestry(arg[p])) <= INFINITE_STATE_MACHINE_MAX_DEPTH)
        => /\ StackOf(machine[p]) = Ancestry(arg[p])
           /\ infinite_state_machine_top(machine[p]) = arg[p]
           /\ \A x \in States :
                infinite_state_machine_in(p, x) =
                    IF x \in Range(Ancestry(arg[p])) THEN 1 ELSE 0

\* A goto from the path 1, 5 to state 3 has returned with the path 1, 2, 3.
C1_Witness ==
    \E p \in Machines :
        /\ Returned(p, "goto")
        /\ arg[p] = 3
        /\ StackOf(before[p]) = <<1, ChainLen + 1>>
        /\ StackOf(machine[p]) = <<1, 2, 3>>

\* The states of a sequence all have both callbacks.
AllHooked(q) == \A i \in 1..Len(q) : HasEnter(q[i]) /\ HasExit(q[i])

C3_OrderGuarantee ==
    \A p \in Machines :
        (inited[p] /\ op[p] = "goto") =>
            LET exits  == Events(p, "exit")
                enters == Events(p, "enter")
            IN  /\ \A i, j \in 1..Len(exits) :
                      super[exits[i]] = exits[j] => i < j
                /\ \A i, j \in 1..Len(enters) :
                      super[enters[j]] = enters[i] => i < j
                /\ (AtRest(p) /\ arg[p] = 3 /\ before[p].depth = 0) =>
                      log[p] = <<<<"enter", 1>>, <<"enter", 2>>, <<"enter", 3>>>>
                /\ (AtRest(p) /\ arg[p] = ChainLen + 1
                              /\ StackOf(before[p]) = <<1, 2, 3>>) =>
                      log[p] = <<<<"exit", 3>>, <<"exit", 2>>,
                                 <<"enter", ChainLen + 1>>>>

\* The second transition of that scenario has returned.
C3_Witness ==
    \E p \in Machines :
        /\ Returned(p, "goto")
        /\ arg[p] = ChainLen + 1
        /\ StackOf(before[p]) = <<1, 2, 3>>
        /\ Events(p, "exit") = <<3, 2>>
        /\ Events(p, "enter") = <<ChainLen + 1>>

\* The callback events (enter, exit) of a log.
Callbacks(l) == SelectSeq(l, LAMBDA e : e[1] \in {"enter", "exit"})

\* C4: idempotence. In every reachable state, a call of goto with the
\* current top as its target (NULL on the empty machine), by the caller or
\* by a callback, changes neither depth nor any slot, starts no activation
\* of goto and calls no callback.
C4_Idempotence ==
    [][\A p \in Machines : \A state \in StatePtr :
          (/\ DoGoto(p, state) \/ CallbackGoto(p, state)
           /\ state = infinite_state_machine_top(machine[p]))
          => /\ machine'[p] = machine[p]
             /\ frames'[p] = frames[p]
             /\ Len(Callbacks(log'[p])) <= Len(Callbacks(log[p]))]_vars

\* goto(m, 2) has been called on the path 1, 5, 2, which an earlier goto
\* with a re-entering callback left behind, and on which the common prefix
\* with the topology of 2 is shorter than the path.
C4_Witness ==
    \E p \in Machines :
        /\ Returned(p, "goto")
        /\ arg[p] = 2
        /\ StackOf(before[p]) = <<1, ChainLen + 1, 2>>
        /\ machine[p] = before[p]
        /\ log[p] = <<>>

C6_GotoNullNoAction ==
    \A p \in Machines :
        (inited[p] /\ op[p] = "goto" /\ arg[p] = NULL) =>
            /\ machine[p] = before[p]
            /\ log[p] = <<>>

\* a is a proper prefix of b.
ProperPrefix(a, b) ==
    /\ Len(a) < Len(b)
    /\ \A i \in 1..Len(a) : a[i] = b[i]

\* C7: capacity boundary. A goto to a target whose chain has exactly
\* MAX_DEPTH states succeeds fully; a goto to a target whose chain has
\* MAX_DEPTH + 1 states returns a capacity-exceeded result and leaves a
\* root-first, parent-linked proper prefix of the target's forward topology.
C7_CapacityBoundary ==
    \A p \in Machines :
        Returned(p, "goto") =>
            /\ Len(Ancestry(arg[p])) = INFINITE_STATE_MACHINE_MAX_DEPTH =>
                  /\ StackOf(machine[p]) = Ancestry(arg[p])
                  /\ ret[p] # <<-ENOMEM>>
            /\ Len(Ancestry(arg[p])) = INFINITE_STATE_MACHINE_MAX_DEPTH + 1 =>
                  /\ ret[p] = <<-ENOMEM>>
                  /\ ProperPrefix(StackOf(machine[p]), Ancestry(arg[p]))

\* C8: failure mode. When a push of goto's enter phase hits capacity, the
\* transition stops there (the failed enter is the last event), the stack
\* is left parent-linked, and goto returns capacity-exceeded to its caller.
C8_FailureMode ==
    \A p \in Machines :
        (Returned(p, "goto") /\ Events(p, "nomem") # <<>>) =>
            /\ Len(Events(p, "nomem")) = 1
            /\ log[p][Len(log[p])][1] = "nomem"
            /\ ParentLinked(machine[p])
            /\ ret[p] = <<-ENOMEM>>

\* C9: 0 <= depth <= MAX_DEPTH in every state of an initialised machine,
\* between and inside transitions and callbacks, whether or not callbacks
\* call goto and whatever the chain length of the targets; the same for the
\* scratch machine of every running goto.
C9_DepthBound ==
    \A p \in Machines :
        inited[p] =>
            /\ machine[p].depth \in 0..INFINITE_STATE_MACHINE_MAX_DEPTH
            /\ \A i \in 1..Len(frames[p]) :
                  frames[p][i].jump.depth \in 0..INFINITE_STATE_MACHINE_MAX_DEPTH

\* The machine is full and an enter has been refused for lack of room.
C9_Witness ==
    \E p \in Machines :
        /\ inited[p]
        /\ machine[p].depth = INFINITE_STATE_MACHINE_MAX_DEPTH
        /\ Events(p, "nomem") # <<>>

\* C10 as claimed: whenever the machine is at rest its stack is
\* parent-linked, also after gotos whose callbacks call goto.
C10_ParentLinkedAlways ==
    \A p \in Machines :
        (inited[p] /\ AtRest(p)) => ParentLinked(machine[p])

\* C10 as amended: whenever the machine is at rest and no callback has
\* called goto since the last init or jump, the parent of the state in slot
\* i + 1 is the state in slot i, and the stack is the topology vector of
\* its own top element.
C10_ParentLinkedAtRest ==
    \A p \in Machines :
        (inited[p] /\ AtRest(p) /\ reenter[p] = 0) =>
            /\ ParentLinked(machine[p])
            /\ StackOf(machine[p]) =
                   TargetTopology(infinite_state_machine_top(machine[p]))

\* A goto without re-entering callbacks has returned from the path 1, 2, 3
\* with the path 1, 5.
C10_Witness ==
    \E p \in Machines :
        /\ Returned(p, "goto")
        /\ reenter[p] = 0
        /\ StackOf(before[p]) = <<1, 2, 3>>
        /\ StackOf(machine[p]) = <<1, ChainLen + 1>>

\* C11: in every state of a machine that init or jump has initialised,
\* between operations and in the middle of a goto alike, the slots below
\* the depth hold states and every slot from the depth up is NULL.
C11_SlotsValidAndCleared ==
    \A p \in Machines :
        inited[p] =>
            \A i \in Slots :
                IF i < machine[p].depth
                THEN machine[p].states[i] \in States
                ELSE machine[p].states[i] = NULL

\* An exit callback runs in a goto that began with a full stack: the slot
\* of the popped state is NULL, the slots below it still hold states.
C11_Witness ==
    \E p \in Machines :
        /\ inited[p]
        /\ InCallback(p)
        /\ Top(p).pc = "exit_cb"
        /\ before[p].depth = INFINITE_STATE_MACHINE_MAX_DEPTH
        /\ machine[p].depth = INFINITE_STATE_MACHINE_MAX_DEPTH - 1
        /\ machine[p].states[machine[p].depth] = NULL
        /\ machine[p].states[machine[p].depth - 1] \in States

\* The step that calls the exit (kind "exit") or enter (kind "enter")
\* callback of a state: the callback is about to run its first statement.
Invokes(p, kind) ==
    /\ IF kind = "exit" THEN ExitStep(p) ELSE EnterStep(p)
    /\ frames'[p] # <<>>
    /\ Top(p)'.pc = (IF kind = "exit" THEN "exit_cb" ELSE "enter_cb")
    /\ log'[p] = Append(log[p], <<kind, Top(p)'.cur>>)

\* What the callback of state s finds when invoked: exit finds the depth
\* one less, the slot s was in NULL and, if inAlso, in(m, s) = 0; enter
\* finds s on top.
Observes(p, inAlso) ==
    LET s == Top(p)'.cur
    IN  /\ Invokes(p, "exit") =>
              /\ machine[p].states[machine[p].depth - 1] = s
              /\ machine'[p].depth = machine[p].depth - 1
              /\ machine'[p].states[machine'[p].depth] = NULL
              /\ inAlso =>
                     \A d \in 0..(machine'[p].depth - 1) :
                         machine'[p].states[d] # s
        /\ Invokes(p, "enter") =>
              /\ infinite_state_machine_top(machine'[p]) = s
              /\ machine'[p].depth = machine[p].depth + 1

\* C12 as claimed: when the exit callback of s is invoked s is already
\* popped (depth one less, slot NULL, in(m, s) = 0), and when the enter
\* callback of s is invoked s is already pushed (top(m) = s).
C12_CallbacksSeeMutated ==
    [][\A p \in Machines : Observes(p, TRUE)]_vars

\* C12 as amended: the same, in(m, s) = 0 being promised to the exit
\* callback only while no callback has called goto since the last init or
\* jump.
C12_CallbacksSeeMutatedNoReentry ==
    [][\A p \in Machines : Observes(p, reenter[p] = 0)]_vars

\* The exit callback of state 3 has just been invoked by a goto that began
\* on the path 1, 2, 3: it finds the path 1, 2 and in(m, 3) = 0.
C12_Witness ==
    \E p \in Machines :
        /\ InCallback(p)
        /\ Top(p).pc = "exit_cb"
        /\ Top(p).cur = 3
        /\ log[p] = <<<<"exit", 3>>>>
        /\ StackOf(before[p]) = <<1, 2, 3>>
        /\ StackOf(machine[p]) = <<1, 2>>
        /\ reenter[p] = 0
        /\ infinite_state_machine_in(p, 3) = 0

\* C13: jump(m, s) returns without having called any callback, whatever m
\* held (uninitialised, non-empty, left by re-entering callbacks); for s
\* with at most MAX_DEPTH states on its chain m then holds exactly the
\* chain of s, root in slot 0 and s on top, the depth its length and every
\* slot above NULL; for NULL m is empty.
C13_JumpReplaces ==
    \A p \in Machines :
        op[p] = "jump" =>
            /\ AtRest(p)
            /\ log[p] = <<>>
            /\ Len(Ancestry(arg[p])) <= INFINITE_STATE_MACHINE_MAX_DEPTH =>
                  /\ machine[p].depth = Len(Ancestry(arg[p]))
                  /\ StackOf(machine[p]) = Ancestry(arg[p])
                  /\ infinite_state_machine_top(machine[p]) = arg[p]
                  /\ \A i \in Slots :
                         i >= machine[p].depth => machine[p].states[i] = NULL
            /\ arg[p] = NULL => machine[p] = InitMachine

\* jump to state 5 has replaced the full path 1, 2, 3 by 1, 5 and cleared
\* slot 2.
C13_Witness ==
    \E p \in Machines :
        /\ op[p] = "jump"
        /\ arg[p] = ChainLen + 1
        /\ before[p].depth = INFINITE_STATE_MACHINE_MAX_DEPTH
        /\ StackOf(before[p]) = <<1, 2, 3>>
        /\ StackOf(machine[p]) = <<1, ChainLen + 1>>
        /\ machine[p].states[2] = NULL

\* C14: goto(m, s) called right after jump(m, s), for every state s and
\* for NULL, returns at once: no callback is called and the machine is as
\* jump left it.
C14_JumpGotoRoundTrip ==
    [][\A p \in Machines : \A state \in StatePtr :
          (op[p] = "jump" /\ arg[p] = state /\ DoGoto(p, state)) =>
              /\ machine'[p] = machine[p]
              /\ frames'[p] = <<>>
              /\ log'[p] = <<>>]_vars

\* goto to state 4 has returned, with no callback, on the path 2, 3, 4
\* that only jump to state 4 produces.
C14_Witness ==
    \E p \in Machines :
        /\ Returned(p, "goto")
        /\ arg[p] = ChainLen
        /\ log[p] = <<>>
        /\ before[p] = machine[p]
        /\ StackOf(machine[p]) = <<2, 3, ChainLen>>

\* The first n states met from a state upwards along super, the state
\* first; the walk ends early at a root.
RECURSIVE Walk(_, _)
Walk(state, n) ==
    IF state = NULL \/ n = 0
    THEN <<>>
    ELSE <<state>> \o Walk(super[state], n - 1)

\* The ancestor chain of the state reaches a root: no cycle on it.
Acyclic(state) == Len(Walk(state, NumStates + 1)) <= NumStates

\* A direct call of infinite_state_topology on a state (or NULL) with an
\* acyclic chain has returned.
Extracted == topology.called /\ Acyclic(topology.state)

\* Entries 0..n-1 of the buffer, and that nothing else was written.
Written(n) ==
    [i \in 1..n |-> topology.buf[i - 1]]

OnlyWritten(n) ==
    \A i \in DOMAIN topology.buf : i >= n => topology.buf[i] = Unwritten

\* C15: for a state whose acyclic chain, itself included, has L <= budget
\* states, infinite_state_topology writes exactly L entries, root first and
\* the state last with every entry the parent of the next, and returns the
\* cursor L entries on.
C15_TopologyExtraction ==
    (Extracted /\ Len(Ancestry(topology.state)) <= topology.depth) =>
        LET L == Len(Ancestry(topology.state))
        IN  /\ topology.end = L
            /\ Written(L) = Ancestry(topology.state)
            /\ OnlyWritten(L)
            /\ L > 0 => /\ super[topology.buf[0]] = NULL
                        /\ topology.buf[L - 1] = topology.state
            /\ \A i \in 0..(L - 2) :
                   super[topology.buf[i + 1]] = topology.buf[i]

\* The chain 1, 2, 3, 4 extracted with a budget of 4.
C15_Witness ==
    /\ Extracted
    /\ topology.state = ChainLen
    /\ topology.depth = ChainLen
    /\ topology.end = ChainLen
    /\ Written(ChainLen) = <<1, 2, 3, ChainLen>>

\* C16 as claimed: with a budget below the length of the acyclic chain,
\* exactly budget entries are written, and they are the budget states
\* farthest from the starting state, the root first.
C16_TruncationOutermost ==
    (Extracted /\ Len(Ancestry(topology.state)) > topology.depth) =>
        /\ topology.end = topology.depth
        /\ Written(topology.depth) =
               SubSeq(Ancestry(topology.state), 1, topology.depth)
        /\ OnlyWritten(topology.depth)

\* C16 as amended: with a budget below the length of the acyclic chain,
\* exactly budget entries are written, and they are the starting state and
\* the budget - 1 ancestors nearest to it, the farthest of them first and
\* the starting state last; the root is among those left out.
C16_TruncationInnermost ==
    (Extracted /\ Len(Ancestry(topology.state)) > topology.depth) =>
        LET L == Len(Ancestry(topology.state))
        IN  /\ topology.end = topology.depth
            /\ Written(topology.depth) =
                   SubSeq(Ancestry(topology.state),
                          L - topology.depth + 1, L)
            /\ Written(topology.depth) =
                   Reverse(Walk(topology.state, topology.depth))
            /\ OnlyWritten(topology.depth)
            /\ Ancestry(topology.state)[1] \notin
                   Range(Written(topology.depth))

\* The chain 1, 2, 3, 4 extracted with a budget of 2: states 3 and 4.
C16_Witness ==
    /\ Extracted
    /\ Ancestry(topology.state) = <<1, 2, 3, ChainLen>>
    /\ topology.depth = 2
    /\ topology.end = 2
    /\ Written(2) = <<3, ChainLen>>

\* C17: in(m, s) on a machine and a state returns 1 if s is in one of the
\* slots 0..depth-1 and 0 if not; what the slots from depth up hold (they
\* hold anything in a machine not yet initialised) makes no difference.
C17_Membership ==
    \A p \in Machines :
        (op[p] = "in" /\ arg[p] # NULL) =>
            ret[p] = << IF \E i \in Slots : /\ i < before[p].depth
                                            /\ before[p].states[i] = arg[p]
                        THEN 1
                        ELSE 0 >>

\* in has returned 0 for a state that every slot of a machine of depth 0
\* or less holds.
C17_Witness ==
    \E p \in Machines :
        /\ op[p] = "in"
        /\ arg[p] = NumStates
        /\ machine[p].depth <= 0
        /\ \A i \in Slots : machine[p].states[i] = arg[p]
        /\ ret[p] = <<0>>

\* in has returned 1 for a state below the top of the stack.
C17_WitnessActive ==
    \E p \in Machines :
        /\ op[p] = "in"
        /\ arg[p] = 1
        /\ StackOf(machine[p]) = <<1, 2, 3>>
        /\ ret[p] = <<1>>

\* C18: in called with no machine or with no state returns -EINVAL, a
\* negative value that is neither 1 nor 0, on an empty machine too; in and
\* top return with the machine's depth and slots as they were.
C18_InvalidArgument ==
    \A p \in Machines :
        /\ (op[p] = "in_absent" \/ (op[p] = "in" /\ arg[p] = NULL)) =>
               /\ ret[p] = <<-EINVAL>>
               /\ ret[p][1] < 0
               /\ ret[p][1] \notin {0, 1}
        /\ op[p] \in {"in", "in_absent", "top"} =>
               /\ AtRest(p)
               /\ machine[p] = before[p]
               /\ log[p] = <<>>

\* in called with the empty machine and no state has returned -EINVAL.
C18_Witness ==
    \E p \in Machines :
        /\ inited[p]
        /\ op[p] = "in"
        /\ arg[p] = NULL
        /\ machine[p] = InitMachine
        /\ ret[p] = <<-EINVAL>>

\* C19: init(m), whatever m held (uninitialised contents, active states),
\* returns with the depth 0 and every one of the MAX_DEPTH slots NULL, and
\* without having called a callback: the states that were active get no
\* exit.
C19_InitClears ==
    \A p \in Machines :
        op[p] = "init" =>
            /\ AtRest(p)
            /\ log[p] = <<>>
            /\ machine[p].depth = 0
            /\ \A i \in Slots : machine[p].states[i] = NULL
            /\ Cardinality(Slots) = INFINITE_STATE_MACHINE_MAX_DEPTH

\* init has emptied a machine that held the path 1, 2, 3 of states with
\* exit callbacks.
C19_Witness ==
    \E p \in Machines :
        /\ op[p] = "init"
        /\ before[p].depth = INFINITE_STATE_MACHINE_MAX_DEPTH
        /\ StackOf(before[p]) = <<1, 2, 3>>
        /\ \A s \in Range(StackOf(before[p])) : HasExit(s)
        /\ machine[p] = InitMachine
        /\ log[p] = <<>>

\* The last operation on machine p began with active states and has
\* returned with none.
Emptied(p) ==
    /\ inited[p]
    /\ AtRest(p)
    /\ before[p].depth \in 1..INFINITE_STATE_MACHINE_MAX_DEPTH
    /\ machine[p].depth = 0

C20_WitnessJump ==
    \E p \in Machines :
        /\ Emptied(p)
        /\ op[p] = "jump"
        /\ arg[p] = NULL
        /\ StackOf(before[p]) = <<1, 2, 3>>

\* C21: with two machines over the same state objects, in every
\* interleaving of the steps of their operations, a goto on either machine
\* returns with the stack and the callback sequence it has when run alone
\* from call to return (likewise jump and init, whose single step leaves
\* what C13 and C19 say), and no step of an operation on one machine
\* changes the depth or the slots, or the running goto, of the other.
C21_IndependentMachines ==
    /\ [](\A p \in Instances :
              /\ Returned(p, "goto") =>
                     /\ machine[p] = GotoAlone(before[p], arg[p]).m
                     /\ log[p] = GotoAlone(before[p], arg[p]).log
              /\ (AtRest(p) /\ op[p] = "jump") =>
                     machine[p] = JumpMachine(arg[p])
              /\ (AtRest(p) /\ op[p] = "init") => machine[p] = InitMachine)
    /\ [][\A p \in Instances :
              (\/ DoInit(p)
               \/ \E state \in SharedPtr : DoJump(p, state) \/ DoGoto(p, state)
               \/ Step(p)) =>
                  \A q \in Instances \ {p} :
                      /\ machine'[q] = machine[q]
                      /\ frames'[q] = frames[q]
                      /\ log'[q] = log[q]]_vars

\* A goto on machine 2 has returned with the path 1, 5 and its exits and
\* enter while machine 1 is inside the exit callback of state 3 of a goto
\* of its own: their steps were interleaved.
C21_Witness ==
    /\ Returned(2, "goto")
    /\ StackOf(before[2]) = <<1, 2>>
    /\ StackOf(machine[2]) = <<1, ChainLen + 1>>
    /\ log[2] = <<<<"exit", 2>>, <<"enter", ChainLen + 1>>>>
    /\ InCallback(1)
    /\ Top(1).cur = 3
    /\ op[1] = "goto"
    /\ StackOf(before[1]) = <<1, 2, 3>>

\* The events of log l that the outermost goto produced itself: those not
\* between the call of a nested goto and its return.
RECURSIVE OwnFrom(_, _, _)
OwnFrom(l, i, n) ==
    IF i > Len(l)
    THEN <<>>
    ELSE IF l[i][1] = "goto" THEN OwnFrom(l, i + 1, n + 1)
    ELSE IF l[i][1] = "return" THEN OwnFrom(l, i + 1, n - 1)
    ELSE IF n = 0 THEN <<l[i]>> \o OwnFrom(l, i + 1, n)
    ELSE OwnFrom(l, i + 1, n)

OwnCount(p, kind) ==
    Len(SelectSeq(OwnFrom(log[p], 1, 0), LAMBDA e : e[1] = kind))

\* Every goto that was called returns.
GotoReturns == \A p \in Machines : (~AtRest(p)) ~> AtRest(p)

\* init, jump, in and top are single steps: the machine is at rest after.
OthersReturn ==
    \A p \in Machines :
        op[p] \in {"init", "jump", "in", "in_absent", "top"} => AtRest(p)

\* C22 as claimed: every operation runs to completion, and a goto, also
\* one whose callbacks call goto, itself exits at most as many states as
\* were active when it was called and enters at most MAX_DEPTH.
C22_Termination ==
    /\ GotoReturns
    /\ [](/\ OthersReturn
          /\ \A p \in Machines :
                 op[p] = "goto" =>
                     /\ OwnCount(p, "exit") <= before[p].depth
                     /\ OwnCount(p, "enter") + OwnCount(p, "nomem")
                            <= INFINITE_STATE_MACHINE_MAX_DEPTH)

\* C22 as amended: every operation runs to completion when its callbacks
\* return and call goto only a bounded number of times; a goto enters at
\* most MAX_DEPTH states itself, and exits at most as many states as were
\* active when it was called if no callback calls goto.
C22_TerminationBounded ==
    /\ GotoReturns
    /\ [](/\ OthersReturn
          /\ \A p \in Machines :
                 op[p] = "goto" =>
                     /\ NoReentry(p) =>
                            OwnCount(p, "exit") <= before[p].depth
                     /\ OwnCount(p, "enter") + OwnCount(p, "nomem")
                            <= INFINITE_STATE_MACHINE_MAX_DEPTH)

\* goto to NULL from the path 1, 2, 3 has returned after four exits of its
\* own: state 3's exit callback called goto to state 3, which entered it
\* again, and the outer goto exited it a second time.
C22_Witness ==
    \E p \in Machines :
        /\ Returned(p, "goto")
        /\ arg[p] = NULL
        /\ StackOf(before[p]) = <<1, 2, 3>>
        /\ log[p] = << <<"exit", 3>>, <<"goto", 3>>, <<"enter", 3>>,
                       <<"return", 3>>, <<"exit", 3>>, <<"exit", 2>>,
                       <<"exit", 1>> >>
        /\ OwnCount(p, "exit") = 4

\* The states of the enter callbacks and failed enters, in order, among
\* the events l.
Entered(l) ==
    LET e == SelectSeq(l, LAMBDA x : x[1] \in {"enter", "nomem"}
                                     /\ HasEnter(x[2]))
    IN  [i \in 1..Len(e) |-> e[i][2]]

\* The states with an enter callback that a goto to state from machine m
\* has to enter: none if state is on top of m, else those of the topology
\* beyond the common prefix.
Plan(m, state) ==
    LET t == TargetTopology(state)
    IN  IF infinite_state_machine_top(m) = state
        THEN <<>>
        ELSE SelectSeq(SubSeq(t, PrefixLen(StackOf(m), t) + 1, Len(t)),
                       HasEnter)

\* C23: a goto called from a callback runs all its exits and enters and
\* returns while the goto that called the callback stands still (its
\* activation is not touched while a nested one exists), and that goto
\* then goes on with the depth and the topology it computed when it was
\* called: the states it enters itself are those of its own topology
\* beyond the common prefix with the stack it was called on, whatever the
\* nested gotos did to the stack.
C23_ReentrancyIsLifo ==
    /\ [](\A p \in Machines :
              Returned(p, "goto") =>
                  Entered(OwnFrom(log[p], 1, 0)) = Plan(before[p], arg[p]))
    /\ [][\A p \in Machines :
              /\ \A i \in 1..(Len(frames[p]) - 1) :
                     /\ i <= Len(frames'[p])
                     /\ frames'[p][i] = frames[p][i]
              /\ \A i \in 1..Len(frames[p]) :
                     i <= Len(frames'[p]) =>
                         /\ frames'[p][i].state = frames[p][i].state
                         /\ frames'[p][i].jump = frames[p][i].jump
                         /\ frames'[p][i].depth >= frames[p][i].depth
              /\ Len(frames'[p]) < Len(frames[p]) =>
                     /\ Top(p).pc = "enter"
                     /\ Top(p).depth = Top(p).jump.depth]_vars

\* goto to state 2 on the empty machine has returned: state 1's enter
\* callback called goto to state 2, which entered state 2 and returned,
\* and the outer goto then entered its own second entry, state 2 again.
C23_Witness ==
    \E p \in Machines :
        /\ Returned(p, "goto")
        /\ arg[p] = 2
        /\ before[p] = InitMachine
        /\ log[p] = << <<"enter", 1>>, <<"goto", 2>>, <<"enter", 2>>,
                       <<"return", 2>>, <<"enter", 2>> >>
        /\ StackOf(machine[p]) = <<1, 2, 2>>

\* test_engine's events, and the active path the README shows after each.
EngineTrace ==
    <<"init", "go", "start", "cycle", "cycle", "cycle", "stop">>

EngineFlow ==
    << <<>>, <<stopped>>, <<starting, igniting>>, <<starting, cranking>>,
       <<starting, cranking>>, <<running>>, <<stopped>> >>

\* C24: when the enter callback of starting, the last state goto(starting)
\* enters, calls goto(igniting) for its child, the outer goto returns with
\* the stack starting, igniting: in(starting) and in(igniting) are 1, top
\* is igniting, and starting was entered before igniting. After each event
\* of test_engine the stack is the one the README's flow shows: stopped,
\* start: starting igniting, cycle: starting cranking, cycle: the same,
\* cycle: running, stop: stopped.
C24_InitialSubstate ==
    \A p \in Machines :
        /\ (Returned(p, "goto") /\ arg[p] = starting) =>
               /\ StackOf(machine[p]) = TargetTopology(igniting)
               /\ StackOf(machine[p]) = <<starting, igniting>>
               /\ infinite_state_machine_in(p, starting) = 1
               /\ infinite_state_machine_in(p, igniting) = 1
               /\ infinite_state_machine_top(machine[p]) = igniting
               /\ Entered(log[p]) = <<starting, igniting>>
               /\ engine.igniting = 1
        /\ (AtRest(p) /\ engine.events # <<>>
                /\ engine.events
                       = SubSeq(EngineTrace, 1, Len(engine.events))) =>
               StackOf(machine[p]) = EngineFlow[Len(engine.events)]

\* start has run from stopped: stopped was left, starting entered, its
\* enter callback called goto(igniting), which entered igniting and
\* returned before the outer goto did.
C24_Witness ==
    \E p \in Machines :
        /\ Returned(p, "goto")
        /\ arg[p] = starting
        /\ engine.events = <<"init", "go", "start">>
        /\ StackOf(before[p]) = <<stopped>>
        /\ log[p] = << <<"exit", stopped>>, <<"enter", starting>>,
                       <<"goto", igniting>>, <<"enter", igniting>>,
                       <<"return", igniting>> >>
        /\ StackOf(machine[p]) = <<starting, igniting>>

\* test_engine has run to its end.
C24_WitnessFlow ==
    \E p \in Machines :
        /\ AtRest(p)
        /\ engine.events = EngineTrace
        /\ StackOf(machine[p]) = <<stopped>>

BackToFront(q) == Reverse(q)

\* Sequence q has each state before its parent (child), where both are
\* in it.
ChildFirst(q) ==
    \A i, j \in 1..Len(q) : super[q[i]] = q[j] /\ q[i] # q[j] => i < j

ParentFirst(q) ==
    \A i, j \in 1..Len(q) : super[q[i]] = q[j] /\ q[i] # q[j] => j < i

\* C26: as documented on struct gone, running the exit handlers over
\* exits from back to front visits each exited state before its parent,
\* and running the entry handlers over entries from back to front visits
\* each entered parent before its child.
C26_BackToFront ==
    (gone.called /\ Acyclic(gone.to)
         /\ \A i \in 1..Len(gone.from) : Acyclic(gone.from[i])) =>
        /\ ChildFirst(BackToFront(gone.exits))
        /\ ParentFirst(BackToFront(gone.entries))

\* What the code returns: the documented order holds from front to back.
C26_FrontToBack ==
    (gone.called /\ Acyclic(gone.to)
         /\ \A i \in 1..Len(gone.from) : Acyclic(gone.from[i])) =>
        /\ ChildFirst(gone.exits)
        /\ ParentFirst(gone.entries)

\* C27: an enter step on a machine with depth == MAX_DEPTH gets -ENOMEM
\* from push, which leaves the depth and every slot as they were, and
\* returns that error without invoking the state's enter callback; on any
\* other machine push stores the state at index depth and increments the
\* depth by exactly one.
C27_PushAtCapacity ==
    [][\A p \in Machines :
           (~AtRest(p) /\ Top(p).pc = "enter"
                /\ Top(p).jump.depth > Top(p).depth) =>
               LET state == Top(p).jump.states[Top(p).depth]
                   m == machine[p]
               IN  IF m.depth = INFINITE_STATE_MACHINE_MAX_DEPTH
                   THEN /\ machine'[p] = m
                        /\ err'[p] = -ENOMEM
                        /\ log'[p] = Append(log[p], <<"nomem", state>>)
                        /\ frames'[p] # <<>>
                        /\ frames'[p][Len(frames'[p])].pc = "enter"
                   ELSE /\ machine'[p].depth = m.depth + 1
                        /\ machine'[p].states
                               = [m.states EXCEPT ![m.depth] = state]
                        /\ HasEnter(state) =>
                               log'[p] = Append(log[p], <<"enter", state>>)]_vars

\* A goto to state 3 from the empty machine has returned: state 1's enter
\* callback called goto to state 3, which filled the stack, and the outer
\* goto's enters of states 2 and 3 both failed on the full stack.
C27_Witness ==
    \E p \in Machines :
        /\ Returned(p, "goto")
        /\ before[p] = InitMachine
        /\ arg[p] = 3
        /\ err[p] = -ENOMEM
        /\ machine[p].depth = INFINITE_STATE_MACHINE_MAX_DEPTH
        /\ Events(p, "nomem") = <<2, 3>>
        /\ StackOf(machine[p]) = <<1, 2, 3>>

\* C28: for every state or NULL, every budget >= 0 and every parent
\* relation, cyclic ones included, infinite_state_topology returns the
\* cursor topology + n with 0 <= n <= budget, has written states to
\* entries 0..n-1 and to nothing else, and returns n = 0 with the buffer
\* untouched when the state is NULL or the budget is 0.
C28_BufferBound ==
    topology.called =>
        /\ 0 <= topology.end
        /\ topology.end <= topology.depth
        /\ OnlyWritten(topology.end)
        /\ \A i \in 0..(topology.end - 1) : topology.buf[i] \in States
        /\ (topology.state = NULL \/ topology.depth = 0) =>
               /\ topology.end = 0
               /\ topology.buf = Buffer

\* A state that is its own parent, extracted with budget 2 and no cycle
\* check: the walk stops when the budget is used up, two entries written.
C28_Witness ==
    /\ topology.called
    /\ ~debug
    /\ topology.state # NULL
    /\ super[topology.state] = topology.state
    /\ topology.depth = 2
    /\ topology.end = 2
    /\ MaxBudget > 2
    /\ topology.buf[2] = Unwritten

\* C30: in a DEBUG build the vector infinite_state_topology produces
\* never holds the same state twice, for every parent relation, cyclic
\* ones included, and every budget: a state the walk has already written
\* is skipped, not written again.
C30_CycleGuard ==
    (topology.called /\ debug) =>
        /\ \A i, j \in 0..(topology.end - 1) :
               topology.buf[i] = topology.buf[j] => i = j
        /\ OnlyWritten(topology.end)

\* A DEBUG build has extracted state 1 on the cycle 1 -> 2 -> 1 with
\* budget 3: the walk saw 1, 2, 1; the inner 1 and 2 were written and the
\* outer 1 was skipped.
C30_Witness ==
    /\ topology.called
    /\ debug
    /\ super[1] = 2
    /\ super[2] = 1
    /\ topology.state = 1
    /\ topology.depth = 3
    /\ topology.end = 2
    /\ topology.buf[0] = 1
    /\ topology.buf[1] = 2

\* The exit callbacks a goto to state from machine m has to call: those
\* of the active states beyond the common prefix, innermost first.
ExitPlan(m, state) ==
    LET s == StackOf(m)
    IN  Reverse(SelectSeq(SubSeq(s, PrefixLen(s, TargetTopology(state)) + 1,
                                 Len(s)), HasExit))

\* C29: within one goto whose callbacks only return, every exit callback
\* fires before any enter callback (no exit follows an enter, and when the
\* first enter fires all exits of the transition have fired), and each
\* callback is invoked by the step that pops or pushes its state: that
\* step does the one pop or push and nothing else to the stack, and the
\* stack does not change while the callback runs.
C29_PhaseOrdering ==
    /\ [](\A p \in Machines :
              (inited[p] /\ op[p] = "goto") =>
                  /\ \A i, j \in 1..Len(log[p]) :
                         (log[p][i][1] = "enter" /\ log[p][j][1] = "exit")
                             => j < i
                  /\ Events(p, "enter") # <<>> =>
                         Events(p, "exit") = ExitPlan(before[p], arg[p]))
    /\ [][\A p \in Machines :
              /\ Invokes(p, "exit") =>
                     /\ infinite_state_machine_pop(machine[p]).pop
                            = Top(p)'.cur
                     /\ machine'[p] = infinite_state_machine_pop(machine[p]).m
              /\ Invokes(p, "enter") =>
                     machine'[p]
                         = infinite_state_machine_push(machine[p],
                                                       Top(p)'.cur).m
              /\ (~AtRest(p) /\ machine'[p] # machine[p]) =>
                     \/ Invokes(p, "exit")
                     \/ Invokes(p, "enter")
                     \/ /\ log'[p] = log[p]
                        /\ \E s \in States :
                               \/ /\ ~HasExit(s)
                                  /\ infinite_state_machine_pop(machine[p])
                                         = [m |-> machine'[p], pop |-> s]
                               \/ /\ ~HasEnter(s)
                                  /\ infinite_state_machine_push(machine[p], s)
                                         = [m |-> machine'[p], rc |-> 0]
              /\ InCallback(p) => machine'[p] = machine[p]]_vars

\* The enter callback of state 5 has just been invoked by a goto that
\* began on the path 1, 2, 3: both exits have fired and 5 is on top.
C29_Witness ==
    \E p \in Machines :
        /\ InCallback(p)
        /\ Top(p).pc = "enter_cb"
        /\ Top(p).cur = ChainLen + 1
        /\ StackOf(before[p]) = <<1, 2, 3>>
        /\ log[p] = << <<"exit", 3>>, <<"exit", 2>>,
                       <<"enter", ChainLen + 1>> >>
        /\ StackOf(machine[p]) = <<1, ChainLen + 1>>

C32_EnterNeverFull ==
    \A p \in Machines :
        /\ Events(p, "nomem") = <<>>
        /\ err[p] # -ENOMEM
        /\ ~AtRest(p) =>
               /\ Top(p).jump.depth <= INFINITE_STATE_MACHINE_MAX_DEPTH
               /\ (Top(p).pc = "enter" /\ Top(p).jump.depth > Top(p).depth) =>
                      /\ machine[p].depth = Top(p).depth
                      /\ ~PushFull(machine[p])
                      /\ infinite_state_machine_push(
                             machine[p], Top(p).jump.states[Top(p).depth]).rc
                             = 0

\* goto to the state whose chain has MAX_DEPTH + 1 states has returned
\* from the empty machine: the MAX_DEPTH innermost states were entered and
\* no enter failed.
C32_Witness ==
    \E p \in Machines :
        /\ Returned(p, "goto")
        /\ arg[p] = ChainLen
        /\ before[p] = InitMachine
        /\ Len(Ancestry(arg[p])) > INFINITE_STATE_MACHINE_MAX_DEPTH
        /\ log[p] = << <<"enter", 2>>, <<"enter", 3>>, <<"enter", ChainLen>> >>
        /\ machine[p].depth = INFINITE_STATE_MACHINE_MAX_DEPTH
        /\ err[p] = 0

\* The enter and exit events of state s in the log of p, in order.
EventsOf(p, s) ==
    SelectSeq(log[p], LAMBDA e : e[1] \in {"enter", "exit"} /\ e[2] = s)

\* Every goto since the last init had NULL or a state as its target whose
\* chain has at most MAX_DEPTH states, each with both callbacks.
WithinDepthHooked(p) ==
    \A i \in 1..Len(log[p]) :
        (log[p][i][1] = "call" /\ log[p][i][2] # NULL) =>
            /\ Len(Ancestry(log[p][i][2])) <= INFINITE_STATE_MACHINE_MAX_DEPTH
            /\ \A a \in Range(Ancestry(log[p][i][2])) :
                   HasEnter(a) /\ HasExit(a)

\* C33: enter/exit balance. After init and any gotos (no jump, callbacks
\* that only return, chains within MAX_DEPTH, both callbacks on every
\* state), the enter and exit callbacks a state has received alternate,
\* beginning with an enter (never two enters without an exit between them,
\* never an exit without an enter before it), and at rest the enters minus
\* the exits are 1 for a state on the stack and 0 for every other state.
C33_EnterExitBalance ==
    \A p \in Machines :
        (inited[p] /\ WithinDepthHooked(p)) =>
            \A s \in States :
                LET h == EventsOf(p, s)
                    enters == Len(SelectSeq(h, LAMBDA e : e[1] = "enter"))
                    exits == Len(SelectSeq(h, LAMBDA e : e[1] = "exit"))
                IN  /\ \A i \in 1..Len(h) :
                           h[i][1] = (IF i % 2 = 1 THEN "enter" ELSE "exit")
                    /\ AtRest(p) =>
                           enters - exits
                               = (IF s \in Range(StackOf(machine[p]))
                                  THEN 1 ELSE 0)

\* After init, goto 3, goto 5 and goto 3 again have returned: states 2
\* and 3 were entered, exited and entered again, state 5 entered and
\* exited, state 1 entered once.
C33_Witness ==
    \E p \in Machines :
        /\ Returned(p, "goto")
        /\ WithinDepthHooked(p)
        /\ Events(p, "call") = <<3, ChainLen + 1, 3>>
        /\ EventsOf(p, 3) = << <<"enter", 3>>, <<"exit", 3>>, <<"enter", 3>> >>
        /\ EventsOf(p, ChainLen + 1)
               = << <<"enter", ChainLen + 1>>, <<"exit", ChainLen + 1>> >>
        /\ EventsOf(p, 1) = << <<"enter", 1>> >>
        /\ StackOf(machine[p]) = <<1, 2, 3>>

=============================================================================
